---- MODULE Spec2Model ----
(***************************************************************************)
(* Model of the tunnel core of securicloud_agent.py: the keep_idle_        *)
(* connection tasks, handle_active_connection and its two pump tasks       *)
(* (pipe_tunnel_to_ha, pipe_ha_to_tunnel), and the shutdown flag.          *)
(*                                                                         *)
(* Granularity: asyncio runs the tasks cooperatively on one thread, so a   *)
(* task's code between two awaits is one atomic step.  Every action below  *)
(* is the resumption of one task at one await, with the outcome of the     *)
(* awaited operation (data, timeout, error) chosen by the environment, and *)
(* runs the task up to its next await.  The signal handler may run between *)
(* any two such steps.                                                     *)
(*                                                                         *)
(* Specifications: Spec is the whole agent and FairSpec adds the event     *)
(* loop's scheduling.  RetrySpec and FairIdleSpec run keep_idle_connection *)
(* alone, the former counting failures and sleeps; StreamSpec and          *)
(* FairSessionSpec run the first task and its session alone, the former    *)
(* recording the bytes relayed; CodecSpec runs the 2-byte framing on its   *)
(* own.                                                                    *)
(***************************************************************************)
EXTENDS Integers, Sequences, FiniteSets, TLC

\* ---------------------------------------------------------------- bounds
MaxTasks == 2      \* keep_idle_connection tasks ever spawned
MaxLinks == 1      \* relay connections ever opened, over all tasks
MaxWrites == 2     \* heartbeats (before shutdown) and data frames written,
                   \*   over all links
MaxLen == 1        \* largest frame length the relay announces
MaxFails == 2      \* failures of one keep_idle_connection task, where
                   \*   they are counted
MaxFrames == 2     \* frames the relay sends on one link, where they are
                   \*   recorded

Tasks == 1..MaxTasks

VARIABLES
    stopping,      \* the asyncio.Event `stopping`
    pc,            \* per keep_idle_connection task: where it is suspended
    parent,        \* per task: the task whose spawn() created it (0: main)
    w,             \* per task: the relay link its locals r, w name, as an
                   \*   index into links[t] (0: unbound)
    first_chunk,   \* per task: local first_chunk, -1 when unbound, else the
                   \*   big-endian value of the two bytes; dropped again at
                   \*   its last use, line 138
    err,           \* per task: the exception e bound by `except Exception as e`
    links,         \* per task: the relay links it has opened, oldest first;
                   \*   of each its state, the close() calls issued, what
                   \*   was written (one token per write call) and the
                   \*   calls of handle_active_connection on it
    ha,            \* per task: the backend writer ha_writer of its session
    haCloses,      \* per task: close() calls issued on ha_writer
    t1,            \* per task: position of its pipe_tunnel_to_ha task
    t2,            \* per task: position of its pipe_ha_to_tunnel task
    cancel1,       \* per task: cancel() requested on t1 and not yet delivered
    cancel2,       \* per task: cancel() requested on t2 and not yet delivered
    length,        \* per task: local `length` of pipe_tunnel_to_ha while
                   \*   readexactly(length) is pending (it is dead, and
                   \*   kept 0 here, everywhere else)
    kept,          \* which history of the run is kept: "nothing",
                   \*   "retries" (fails, slept) or "stream" (rxd, fwd,
                   \*   bread, framed); it never changes
    fails,         \* per task: exceptions caught at line 255 so far
    slept,         \* per task: time units spent in asyncio.sleep at lines
                   \*   248 and 258 so far
    rxd,           \* per task: the lengths announced by the frame headers
                   \*   read from its relay link so far, in order
    fwd,           \* per task: the bytes written to ha_writer so far
    bread,         \* per task: the sizes of the non-empty chunks returned
                   \*   by ha_reader.read so far, in order
    framed,        \* per task: the data frames written to its relay link
                   \*   so far: the two prefix bytes, and the chunk as its
                   \*   offset and length in the backend's byte stream
    codec          \* the framing on its own: the payloads framed so far
                   \*   (sent), the bytes that makes (stream), how many of
                   \*   them the reader has consumed (pos), the length it
                   \*   decoded when a payload is outstanding (length, else
                   \*   UNBOUND) and the payloads it has read (got)

vars == <<stopping, pc, parent, w, first_chunk, err, links, ha, haCloses,
          t1, t2, cancel1, cancel2, length, kept, fails, slept,
          rxd, fwd, bread, framed, codec>>

retryVars == <<fails, slept>>
dataVars == <<kept, rxd, fwd, bread, framed, codec>>
idleVars == <<pc, parent, w, first_chunk, err, retryVars>>
pumpVars == <<t1, t2, cancel1, cancel2, length>>
haVars == <<ha, haCloses>>

\* ------------------------------------------------------------ positions
\* keep_idle_connection before the handoff
PreHandoff == {"spawned", "connecting", "handshake", "waiting", "hbdrain",
               "stopsleep", "backoff"}
\* inside handle_active_connection
InSession == {"haopen", "wait", "gather", "close_t", "close_ha"}
\* handle_active_connection's finally block and after
Cleanup == {"close_t", "close_ha", "done"}
\* exceptions raised by I/O on the relay link
IOErrors == {"connect", "handshake", "read", "hbwrite"}

UNBOUND == -1

\* asyncio.sleep(3) at line 258 and asyncio.sleep(1) at line 248
BackoffSecs == 3
StopSleepSecs == 1

\* ha_reader.read(8192) at line 169
ChunkSize == 8192

\* a count advanced by d, a history extended by x, by the sequence s, where
\* that history is kept
Tally(x, d) == IF kept = "retries" THEN x + d ELSE x
Rec(h, x) == IF kept = "stream" THEN Append(h, x) ELSE h
Cat(h, s) == IF kept = "stream" THEN h \o s ELSE h

\* int.to_bytes(2, "big") of n in 0..65535 (lines 172, 230); beyond that
\* Python raises OverflowError
ToBytes2Big_Little(n) == <<n % 256, n \div 256>>
ToBytes2Big(n) == <<n \div 256, n % 256>>

\* int.from_bytes(b) of two bytes (lines 138, 148): byteorder defaults to
\* "big" (Python 3.11 and later)
FromBytes_Little(b) == b[2] * 256 + b[1]
FromBytes(b) == b[1] * 256 + b[2]

\* the n bytes that follow the header of the i-th frame the relay sends on
\* a link: any bytes, different from frame to frame
PayloadOf(i, n) == [j \in 1..n |-> (16 * i + j) % 256]

RECURSIVE Sum(_)
Sum(q) == IF q = <<>> THEN 0 ELSE Head(q) + Sum(Tail(q))

\* ---------------------------------------------------------------- wire
Count(wire, tok) == Cardinality({i \in 1..Len(wire) : wire[i] = tok})
HbCount(wire) == Count(wire, "HB")
DataCount(wire) == Count(wire, "LEN")

\* StreamWriter.write on the k-th relay link of task t: the transport
\* drops writes once close() has been called.
Write(ls, t, k, toks) ==
    IF ls[t][k].state = "open"
    THEN [ls EXCEPT ![t][k].wire = @ \o toks]
    ELSE ls

\* the heartbeat frame b"\x00\x00" of lines 151 and 243: one write call
Heartbeat_Twice == <<"HB", "HB">>
Heartbeat == <<"HB">>

\* StreamWriter.close on the k-th relay link of task t.
Close(ls, t, k) ==
    [ls EXCEPT ![t][k].state = "closed", ![t][k].closes = @ + 1]

\* StreamWriter.is_closing
IsClosing(ls, t, k) == ls[t][k].state = "closed"

\* the relay link task t's local w names
Cur(t) == links[t][w[t]]

\* relay links opened by tasks 1..n
RECURSIVE Opened(_)
Opened(n) == IF n = 0 THEN 0 ELSE Len(links[n]) + Opened(n - 1)

\* tokens tok written on the first k links of task t, and by tasks 1..n
RECURSIVE WrittenOn(_, _, _)
WrittenOn(t, k, tok) ==
    IF k = 0 THEN 0
    ELSE Count(links[t][k].wire, tok) + WrittenOn(t, k - 1, tok)
RECURSIVE Written(_, _)
Written(n, tok) ==
    IF n = 0 THEN 0
    ELSE WrittenOn(n, Len(links[n]), tok) + Written(n - 1, tok)

\* heartbeats and data frames written so far
Writes == Written(MaxTasks, "HB") + Written(MaxTasks, "LEN")

FreeTasks == {c \in Tasks : pc[c] = "none"}

\* ------------------------------------------------------------------ init
\* main() has called spawn(keep_idle_connection(True)).
Started ==
    /\ stopping = FALSE
    /\ pc = [t \in Tasks |-> IF t = 1 THEN "spawned" ELSE "none"]
    /\ parent = [t \in Tasks |-> 0]
    /\ w = [t \in Tasks |-> 0]
    /\ first_chunk = [t \in Tasks |-> UNBOUND]
    /\ err = [t \in Tasks |-> "none"]
    /\ links = [t \in Tasks |-> <<>>]
    /\ ha = [t \in Tasks |-> "none"]
    /\ haCloses = [t \in Tasks |-> 0]
    /\ t1 = [t \in Tasks |-> "none"]
    /\ t2 = [t \in Tasks |-> "none"]
    /\ cancel1 = [t \in Tasks |-> FALSE]
    /\ cancel2 = [t \in Tasks |-> FALSE]
    /\ length = [t \in Tasks |-> 0]
    /\ fails = [t \in Tasks |-> 0]
    /\ slept = [t \in Tasks |-> 0]
    /\ rxd = [t \in Tasks |-> <<>>]
    /\ fwd = [t \in Tasks |-> <<>>]
    /\ bread = [t \in Tasks |-> <<>>]
    /\ framed = [t \in Tasks |-> <<>>]
    /\ codec = [sent |-> <<>>, stream |-> <<>>, pos |-> 0,
                length |-> UNBOUND, got |-> <<>>]

Init ==
    /\ Started
    /\ kept = "nothing"

\* the same start, with the failures and the sleeps of every task counted
RetryInit ==
    /\ Started
    /\ kept = "retries"

\* the same start, with the bytes of every session recorded
StreamInit ==
    /\ Started
    /\ kept = "stream"

\* ------------------------------------------------------------- shutdown
\* handle_stop: stopping.set()
Stop ==
    /\ ~stopping
    /\ stopping' = TRUE
    /\ UNCHANGED <<idleVars, links, haVars, pumpVars, dataVars>>

\* ------------------------------------------------- keep_idle_connection
\* `while not stopping.is_set()` at line 217
LoopHead_Ignore(s) == "connecting"
LoopHead(s) == IF s THEN "done" ELSE "connecting"

\* the except clause of lines 255-258: log, then await asyncio.sleep(3)
OnError_Exit(e) == "done"
OnError(e) == "backoff"

\* line 253: `break` after handle_active_connection returns
AfterSession_Continue(s) == LoopHead(s)
AfterSession(s) == "done"

\* spawn(): asyncio.create_task makes child c runnable
Spawn_Skip(p, c) == p
Spawn(p, c) == [p EXCEPT ![c] = "spawned"]

\* the argument of asyncio.sleep at line 258 after the n-th exception
BackoffDelay_Growing(n) == BackoffSecs * n
BackoffDelay(n) == BackoffSecs

\* Raise exception e in task t inside the try of lines 218-253.
Raise(t, e) ==
    /\ fails[t] < MaxFails
    /\ pc' = [pc EXCEPT ![t] = OnError(e)]
    /\ err' = [err EXCEPT ![t] = e]
    /\ fails' = [fails EXCEPT ![t] = Tally(@, 1)]

\* The task is first scheduled: line 217.
Run(t) ==
    /\ pc[t] = "spawned"
    /\ pc' = [pc EXCEPT ![t] = LoopHead(stopping)]
    /\ UNCHANGED <<stopping, dataVars, retryVars, parent, w, first_chunk, err, links, haVars, pumpVars>>

\* the two write calls of lines 230-231: len(ident) as two bytes, then ident
Handshake_None == <<>>
Handshake == <<"IDLEN", "IDENT">>

\* asyncio.open_connection returns (line 222); the handshake is written
\* (lines 229-231) and the task awaits w.drain() (line 232).
ConnectOK(t) ==
    /\ pc[t] = "connecting"
    /\ Opened(MaxTasks) < MaxLinks
    /\ links' = [links EXCEPT ![t] = Append(@,
                    [state |-> "open", closes |-> 0,
                     wire |-> Handshake, hac |-> 0])]
    /\ w' = [w EXCEPT ![t] = Len(links[t]) + 1]
    /\ pc' = [pc EXCEPT ![t] = "handshake"]
    /\ UNCHANGED <<stopping, dataVars, retryVars, parent, first_chunk, err, haVars, pumpVars>>

\* asyncio.open_connection raises (line 222).
ConnectFail(t) ==
    /\ pc[t] = "connecting"
    /\ Raise(t, "connect")
    /\ UNCHANGED <<stopping, dataVars, slept, parent, w, first_chunk, links, haVars, pumpVars>>

\* Lines 246-253, reached when the wait loop of lines 238-244 is left.
\* first_chunk unbound: the test `not first_chunk` raises UnboundLocalError.
\* Two bytes are always truthy, so only stopping selects the close branch.
\* Otherwise the replacement is spawned and handle_active_connection runs
\* up to its await of open_connection (line 193).
AfterWait(t, fc) ==
    IF fc = UNBOUND
    THEN /\ Raise(t, "unbound")
         /\ UNCHANGED <<parent, links>>
    ELSE IF stopping
    THEN /\ links' = Close(links, t, w[t])
         /\ pc' = [pc EXCEPT ![t] = "stopsleep"]
         /\ UNCHANGED <<parent, err, fails>>
    ELSE \E c \in FreeTasks :
         /\ \A k \in FreeTasks : c <= k
         /\ pc' = [Spawn(pc, c) EXCEPT ![t] = "haopen"]
         /\ parent' = [parent EXCEPT ![c] = t]
         /\ links' = [links EXCEPT ![t][w[t]].hac = @ + 1]
         /\ UNCHANGED <<err, fails>>

\* `while not stopping.is_set()` at line 238, reached after an await.
WaitLoopHead(t) ==
    IF stopping
    THEN AfterWait(t, first_chunk[t])
    ELSE /\ pc' = [pc EXCEPT ![t] = "waiting"]
         /\ UNCHANGED <<parent, err, links, fails>>

\* w.drain() of the handshake returns (line 232).
HandshakeDrained(t) ==
    /\ pc[t] = "handshake"
    /\ WaitLoopHead(t)
    /\ UNCHANGED <<stopping, dataVars, slept, w, first_chunk, haVars, pumpVars>>

\* w.drain() of the handshake raises.
HandshakeFail(t) ==
    /\ pc[t] = "handshake"
    /\ Raise(t, "handshake")
    /\ UNCHANGED <<stopping, dataVars, slept, parent, w, first_chunk, links, haVars, pumpVars>>

\* wait_for(r.readexactly(2), 5) returns two bytes of value n (line 240):
\* the header of a frame of n bytes.
ReadHeader(t, n) ==
    /\ pc[t] = "waiting"
    /\ stopping \/ FreeTasks # {}
    /\ Len(rxd[t]) < MaxFrames
    /\ first_chunk' = [first_chunk EXCEPT ![t] = n]
    /\ rxd' = [rxd EXCEPT ![t] = Rec(@, n)]
    /\ AfterWait(t, n)
    /\ UNCHANGED <<stopping, kept, codec, fwd, bread, framed, slept, w, haVars, pumpVars>>

\* r.readexactly(2) raises (EOF as IncompleteReadError, connection reset).
ReadFail(t) ==
    /\ pc[t] = "waiting"
    /\ Raise(t, "read")
    /\ UNCHANGED <<stopping, dataVars, slept, parent, w, first_chunk, links, haVars, pumpVars>>

\* wait_for times out: the heartbeat is written, then await w.drain()
\* (lines 242-244).
Timeout(t) ==
    /\ pc[t] = "waiting"
    /\ stopping \/ Writes < MaxWrites
    /\ links' = Write(links, t, w[t], Heartbeat)
    /\ pc' = [pc EXCEPT ![t] = "hbdrain"]
    /\ UNCHANGED <<stopping, dataVars, retryVars, parent, w, first_chunk, err, haVars, pumpVars>>

\* w.drain() of the heartbeat returns (line 244).
HbDrained(t) ==
    /\ pc[t] = "hbdrain"
    /\ WaitLoopHead(t)
    /\ UNCHANGED <<stopping, dataVars, slept, w, first_chunk, haVars, pumpVars>>

\* w.drain() of the heartbeat raises.
HbDrainFail(t) ==
    /\ pc[t] = "hbdrain"
    /\ Raise(t, "hbwrite")
    /\ UNCHANGED <<stopping, dataVars, slept, parent, w, first_chunk, links, haVars, pumpVars>>

\* asyncio.sleep(1) returns (line 248); `continue`.
StopSleepDone(t) ==
    /\ pc[t] = "stopsleep"
    /\ pc' = [pc EXCEPT ![t] = LoopHead(stopping)]
    /\ slept' = [slept EXCEPT ![t] = Tally(@, StopSleepSecs)]
    /\ UNCHANGED <<stopping, dataVars, fails, parent, w, first_chunk, err, links, haVars, pumpVars>>

\* asyncio.sleep(3) returns (line 258); e goes out of scope.
BackoffDone(t) ==
    /\ pc[t] = "backoff"
    /\ pc' = [pc EXCEPT ![t] = LoopHead(stopping)]
    /\ err' = [err EXCEPT ![t] = "none"]
    /\ slept' = [slept EXCEPT ![t] = Tally(@, BackoffDelay(fails[t]))]
    /\ UNCHANGED <<stopping, dataVars, fails, parent, w, first_chunk, links, haVars, pumpVars>>

IdleNext(t) ==
    \/ Run(t)
    \/ ConnectOK(t)
    \/ ConnectFail(t)
    \/ HandshakeDrained(t)
    \/ HandshakeFail(t)
    \/ \E n \in 0..MaxLen : ReadHeader(t, n)
    \/ ReadFail(t)
    \/ Timeout(t)
    \/ HbDrained(t)
    \/ HbDrainFail(t)
    \/ StopSleepDone(t)
    \/ BackoffDone(t)

\* --------------------------------------------- handle_active_connection
\* cancel() on every pending pump (lines 199-200): a pump that is not done
\* gets CancelledError at its next resumption.
CancelPending_Skip(c, tk, t) == c
CancelPending(c, tk, t) == [c EXCEPT ![t] = (tk[t] # "done")]

\* `for w in (t_writer, ha_writer)`: t_writer.close() in the finally block
\* (lines 207-210).
FinallyCloseRelay_Skip(ls, t, k) == ls
FinallyCloseRelay(ls, t, k) == Close(ls, t, k)

\* The finally block of lines 206-211 is entered: t_writer.close(), then
\* await t_writer.wait_closed().
EnterFinally(t) ==
    /\ links' = FinallyCloseRelay(links, t, w[t])
    /\ pc' = [pc EXCEPT ![t] = "close_t"]

\* asyncio.open_connection to the backend returns (line 193); both pump
\* tasks are created (lines 195-196); await asyncio.wait (line 198).
HaOpenOK(t) ==
    /\ pc[t] = "haopen"
    /\ ha' = [ha EXCEPT ![t] = "open"]
    /\ t1' = [t1 EXCEPT ![t] = "ready"]
    /\ t2' = [t2 EXCEPT ![t] = "ready"]
    /\ pc' = [pc EXCEPT ![t] = "wait"]
    /\ UNCHANGED <<stopping, dataVars, retryVars, parent, w, first_chunk, err, links, haCloses,
                   cancel1, cancel2, length>>

\* asyncio.open_connection to the backend raises: logged (line 204), then
\* the finally block with ha_writer = None.
HaOpenFail(t) ==
    /\ pc[t] = "haopen"
    /\ EnterFinally(t)
    /\ UNCHANGED <<stopping, dataVars, retryVars, parent, w, first_chunk, err, haVars, pumpVars>>

\* return_when of asyncio.wait at line 198 is FIRST_COMPLETED: the wait is
\* over when a pump in position a or a pump in position b is done.
WaitReturns_All(a, b) == a = "done" /\ b = "done"
WaitReturns(a, b) == a = "done" \/ b = "done"

\* asyncio.wait(FIRST_COMPLETED) returns (line 198): some pump is done.
\* The event loop runs callbacks in FIFO order, so both pumps have had their
\* first step before the done callback of either wakes this task.  The
\* pending pumps are cancelled; gather of an empty set does not suspend.
WaitDone(t) ==
    /\ pc[t] = "wait"
    /\ t1[t] # "ready" /\ t2[t] # "ready"
    /\ WaitReturns(t1[t], t2[t])
    /\ cancel1' = CancelPending(cancel1, t1, t)
    /\ cancel2' = CancelPending(cancel2, t2, t)
    /\ IF t1[t] = "done" /\ t2[t] = "done"
       THEN EnterFinally(t)
       ELSE /\ pc' = [pc EXCEPT ![t] = "gather"]
            /\ UNCHANGED links
    /\ UNCHANGED <<stopping, dataVars, retryVars, parent, w, first_chunk, err, haVars, t1, t2, length>>

\* asyncio.gather(*pending) returns (line 201): every pending pump is done.
GatherDone(t) ==
    /\ pc[t] = "gather"
    /\ t1[t] = "done" /\ t2[t] = "done"
    /\ EnterFinally(t)
    /\ UNCHANGED <<stopping, dataVars, retryVars, parent, w, first_chunk, err, haVars, pumpVars>>

\* Where keep_idle_connection goes on when handle_active_connection is over
\* after a failed open_connection: the exception was caught at line 203, so
\* the call returns and line 253 is next (it does not reach line 255).
AfterFailedOpen_Reraise(s) == OnError("haopen")
AfterFailedOpen(s) == AfterSession(s)

\* t_writer.wait_closed() returns or raises (suppressed); next writer of
\* the for loop: ha_writer, skipped when None; then return and line 253.
CloseRelayDone(t) ==
    /\ pc[t] = "close_t"
    /\ IF ha[t] = "none"
       THEN /\ pc' = [pc EXCEPT ![t] = AfterFailedOpen(stopping)]
            /\ UNCHANGED haVars
       ELSE /\ ha' = [ha EXCEPT ![t] = "closed"]
            /\ haCloses' = [haCloses EXCEPT ![t] = @ + 1]
            /\ pc' = [pc EXCEPT ![t] = "close_ha"]
    /\ UNCHANGED <<stopping, dataVars, retryVars, parent, w, first_chunk, err, links, pumpVars>>

\* ha_writer.wait_closed() returns or raises (suppressed); return; line 253.
CloseHaDone(t) ==
    /\ pc[t] = "close_ha"
    /\ pc' = [pc EXCEPT ![t] = AfterSession(stopping)]
    /\ UNCHANGED <<stopping, dataVars, retryVars, parent, w, first_chunk, err, links, haVars, pumpVars>>

SessionNext(t) ==
    \/ HaOpenOK(t)
    \/ HaOpenFail(t)
    \/ WaitDone(t)
    \/ GatherDone(t)
    \/ CloseRelayDone(t)
    \/ CloseHaDone(t)

\* ---------------------------------------------------- pipe_tunnel_to_ha
T1Await == {"payload", "hadrain", "header", "hbdrain"}

\* The finally block of lines 159-163.
T1Finally(t) ==
    /\ length' = [length EXCEPT ![t] = 0]
    /\ IF ha[t] # "closed"
       THEN /\ ha' = [ha EXCEPT ![t] = "closed"]
            /\ haCloses' = [haCloses EXCEPT ![t] = @ + 1]
            /\ t1' = [t1 EXCEPT ![t] = "closing"]
       ELSE /\ t1' = [t1 EXCEPT ![t] = "done"]
            /\ UNCHANGED haVars

\* `while not stopping.is_set()` at line 145, reached with the payload
\* handled; when stopping is set both loops are left.
T1InnerHead(t) ==
    IF stopping
    THEN T1Finally(t)
    ELSE /\ t1' = [t1 EXCEPT ![t] = "header"]
         /\ length' = [length EXCEPT ![t] = 0]
         /\ UNCHANGED haVars

\* `while not stopping.is_set()` at line 139 with length = n.
T1OuterHead(t, n) ==
    IF stopping
    THEN T1Finally(t)
    ELSE IF n > 0
    THEN /\ t1' = [t1 EXCEPT ![t] = "payload"]
         /\ length' = [length EXCEPT ![t] = n]
         /\ UNCHANGED haVars
    ELSE T1InnerHead(t)

\* First step of the task: length = int.from_bytes(first_chunk) (line 138);
\* first_chunk names the two bytes by their big-endian value.
T1Start(t) ==
    /\ t1[t] = "ready"
    /\ T1OuterHead(t, FromBytes(ToBytes2Big(first_chunk[t])))
    /\ first_chunk' = [first_chunk EXCEPT ![t] = UNBOUND]
    /\ UNCHANGED <<stopping, dataVars, retryVars, pc, parent, w, err, links, t2, cancel1, cancel2>>

\* t_reader.readexactly(length) returns the next `length` bytes of the
\* relay's stream, which follow the header read last (line 141);
\* ha_writer.write(d); await ha_writer.drain().
T1Payload(t) ==
    /\ t1[t] = "payload" /\ ~cancel1[t]
    /\ t1' = [t1 EXCEPT ![t] = "hadrain"]
    /\ fwd' = [fwd EXCEPT ![t] = Cat(@, PayloadOf(Len(rxd[t]), length[t]))]
    /\ length' = [length EXCEPT ![t] = 0]
    /\ UNCHANGED <<stopping, kept, codec, rxd, bread, framed, idleVars, links, haVars,
                   t2, cancel1, cancel2>>

\* An await inside the try raises an Exception (lines 156-157).
T1Fail(t) ==
    /\ t1[t] \in T1Await /\ ~cancel1[t]
    /\ T1Finally(t)
    /\ UNCHANGED <<stopping, dataVars, idleVars, links, t2, cancel1, cancel2>>

\* ha_writer.drain() returns (line 143).
T1HaDrained(t) ==
    /\ t1[t] = "hadrain" /\ ~cancel1[t]
    /\ T1InnerHead(t)
    /\ UNCHANGED <<stopping, dataVars, idleVars, links, t2, cancel1, cancel2>>

\* wait_for(t_reader.readexactly(2), 5) returns the header of a frame of
\* n bytes, which the relay sent as u16_be(n); length = int.from_bytes(b)
\* (lines 147-149).
T1Header(t, n) ==
    /\ t1[t] = "header" /\ ~cancel1[t]
    /\ Len(rxd[t]) < MaxFrames
    /\ rxd' = [rxd EXCEPT ![t] = Rec(@, n)]
    /\ T1OuterHead(t, FromBytes(ToBytes2Big(n)))
    /\ UNCHANGED <<stopping, kept, codec, fwd, bread, framed, idleVars, links,
                   t2, cancel1, cancel2>>

\* wait_for times out: heartbeat written, await t_writer.drain()
\* (lines 150-152).
T1Timeout(t) ==
    /\ t1[t] = "header" /\ ~cancel1[t]
    /\ stopping \/ Writes < MaxWrites
    /\ links' = Write(links, t, w[t], Heartbeat)
    /\ t1' = [t1 EXCEPT ![t] = "hbdrain"]
    /\ UNCHANGED <<stopping, dataVars, idleVars, haVars, t2, cancel1, cancel2, length>>

\* t_writer.drain() returns (line 152).
T1HbDrained(t) ==
    /\ t1[t] = "hbdrain" /\ ~cancel1[t]
    /\ T1InnerHead(t)
    /\ UNCHANGED <<stopping, dataVars, idleVars, links, t2, cancel1, cancel2>>

\* CancelledError is delivered: caught at line 154 when raised inside the
\* try, propagating out of the finally block when raised at line 163.
T1Cancelled(t) ==
    /\ cancel1[t]
    /\ cancel1' = [cancel1 EXCEPT ![t] = FALSE]
    /\ IF t1[t] \in T1Await
       THEN T1Finally(t)
       ELSE /\ t1[t] = "closing"
            /\ t1' = [t1 EXCEPT ![t] = "done"]
            /\ UNCHANGED <<haVars, length>>
    /\ UNCHANGED <<stopping, dataVars, idleVars, links, t2, cancel2>>

\* ha_writer.wait_closed() returns or raises (suppressed) (line 163).
T1Closed(t) ==
    /\ t1[t] = "closing" /\ ~cancel1[t]
    /\ t1' = [t1 EXCEPT ![t] = "done"]
    /\ UNCHANGED <<stopping, dataVars, idleVars, links, haVars, t2, cancel1, cancel2, length>>

\* Both pump tasks are queued by create_task back to back (lines 195-196)
\* and the event loop runs its queue in order: t1 takes its first step,
\* then t2 its first step, before any completion can resume t1.
T1Resumable(t) == t2[t] # "ready"

T1Next(t) ==
    \/ T1Start(t)
    \/ T1Resumable(t) /\ T1Payload(t)
    \/ T1Resumable(t) /\ T1Fail(t)
    \/ T1Resumable(t) /\ T1HaDrained(t)
    \/ T1Resumable(t) /\ \E n \in 0..MaxLen : T1Header(t, n)
    \/ T1Resumable(t) /\ T1Timeout(t)
    \/ T1Resumable(t) /\ T1HbDrained(t)
    \/ T1Resumable(t) /\ T1Cancelled(t)
    \/ T1Resumable(t) /\ T1Closed(t)

\* ---------------------------------------------------- pipe_ha_to_tunnel
T2Await == {"haread", "tdrain"}

\* The finally block of lines 181-185.
T2Finally(t) ==
    IF ~IsClosing(links, t, w[t])
    THEN /\ links' = Close(links, t, w[t])
         /\ t2' = [t2 EXCEPT ![t] = "closing"]
    ELSE /\ t2' = [t2 EXCEPT ![t] = "done"]
         /\ UNCHANGED links

\* `while not stopping.is_set()` at line 168.
T2Head(t) ==
    IF stopping
    THEN T2Finally(t)
    ELSE /\ t2' = [t2 EXCEPT ![t] = "haread"]
         /\ UNCHANGED links

\* First step of the task, queued right behind the first step of t1.
T2Start(t) ==
    /\ t2[t] = "ready" /\ t1[t] # "ready"
    /\ T2Head(t)
    /\ UNCHANGED <<stopping, dataVars, idleVars, haVars, t1, cancel1, cancel2, length>>

\* what ha_reader.read(8192) may return: between 1 and 8192 bytes
ReadSizes == {1, 258, ChunkSize}

\* the two write calls of lines 172-173: the length prefix, then the chunk
DataFrame_NoPrefix == <<"CHUNK">>
DataFrame == <<"LEN", "CHUNK">>

\* ha_reader.read(8192) returns a chunk d of n bytes (line 169), the next n
\* bytes of the backend's stream: len(d).to_bytes(2, "big") and d are
\* written, await t_writer.drain() (lines 172-174).
T2Read(t, n) ==
    /\ t2[t] = "haread" /\ ~cancel2[t]
    /\ Writes < MaxWrites
    /\ links' = Write(links, t, w[t], DataFrame)
    /\ bread' = [bread EXCEPT ![t] = Rec(@, n)]
    /\ framed' = [framed EXCEPT ![t] =
                    IF Cur(t).state = "open"
                    THEN Rec(@, [hdr |-> ToBytes2Big(n),
                                 off |-> Sum(bread[t]), len |-> n])
                    ELSE @]
    /\ t2' = [t2 EXCEPT ![t] = "tdrain"]
    /\ UNCHANGED <<stopping, kept, codec, rxd, fwd, idleVars, haVars, t1, cancel1,
                   cancel2, length>>

\* `if not d: break` (lines 170-171): the loop is left for the finally block
EmptyRead(t) == T2Finally(t)

\* ha_reader.read(8192) returns b"" (lines 170-171): break.
T2Eof(t) ==
    /\ t2[t] = "haread" /\ ~cancel2[t]
    /\ EmptyRead(t)
    /\ UNCHANGED <<stopping, dataVars, idleVars, haVars, t1, cancel1, cancel2, length>>

\* An await inside the try raises an Exception (lines 178-179).
T2Fail(t) ==
    /\ t2[t] \in T2Await /\ ~cancel2[t]
    /\ T2Finally(t)
    /\ UNCHANGED <<stopping, dataVars, idleVars, haVars, t1, cancel1, cancel2, length>>

\* t_writer.drain() returns (line 174).
T2Drained(t) ==
    /\ t2[t] = "tdrain" /\ ~cancel2[t]
    /\ T2Head(t)
    /\ UNCHANGED <<stopping, dataVars, idleVars, haVars, t1, cancel1, cancel2, length>>

\* CancelledError is delivered: caught at line 176 when raised inside the
\* try, propagating out of the finally block when raised at line 185.
T2Cancelled(t) ==
    /\ cancel2[t]
    /\ cancel2' = [cancel2 EXCEPT ![t] = FALSE]
    /\ IF t2[t] \in T2Await
       THEN T2Finally(t)
       ELSE /\ t2[t] = "closing"
            /\ t2' = [t2 EXCEPT ![t] = "done"]
            /\ UNCHANGED links
    /\ UNCHANGED <<stopping, dataVars, idleVars, haVars, t1, cancel1, length>>

\* t_writer.wait_closed() returns or raises (suppressed) (line 185).
T2Closed(t) ==
    /\ t2[t] = "closing" /\ ~cancel2[t]
    /\ t2' = [t2 EXCEPT ![t] = "done"]
    /\ UNCHANGED <<stopping, dataVars, idleVars, links, haVars, t1, cancel1, cancel2, length>>

T2Next(t) ==
    \/ T2Start(t)
    \/ \E n \in ReadSizes : T2Read(t, n)
    \/ T2Eof(t)
    \/ T2Fail(t)
    \/ T2Drained(t)
    \/ T2Cancelled(t)
    \/ T2Closed(t)

\* ------------------------------------------------------------------ next
Next ==
    \/ Stop
    \/ \E t \in Tasks : IdleNext(t)
    \/ \E t \in Tasks : SessionNext(t)
    \/ \E t \in Tasks : T1Next(t)
    \/ \E t \in Tasks : T2Next(t)

Spec == Init /\ [][Next]_vars

\* keep_idle_connection alone, every task counting its failures and its
\* sleeps: handle_active_connection is a call that has not returned yet.
RetryNext ==
    \/ Stop
    \/ \E t \in Tasks : IdleNext(t)

RetrySpec == RetryInit /\ [][RetryNext]_vars

\* The first keep_idle_connection task and its session alone, with the
\* bytes of the session recorded: sessions share nothing but the flag, and
\* the task spawned at the handoff is left where spawn() puts it.
StreamNext ==
    \/ Stop
    \/ IdleNext(1)
    \/ SessionNext(1)
    \/ T1Next(1)
    \/ T2Next(1)

StreamSpec == StreamInit /\ [][StreamNext]_vars

\* ------------------------------------------------------------ the framing
\* the payload lengths framed below: none, small ones, and two whose prefix
\* bytes are both non-zero and differ
PayloadLens == {0, 1, 2, 258, 770}

\* lines 172-173: len(d).to_bytes(2, "big"), then d
EncodeFrame_CountsPrefix(d) == ToBytes2Big(Len(d) + 2) \o d
EncodeFrame(d) == ToBytes2Big(Len(d)) \o d

\* A payload of n bytes is framed the way pipe_ha_to_tunnel frames a chunk
\* and appended to the stream.
Encode(n) ==
    /\ Len(codec.sent) < MaxFrames
    /\ LET d == PayloadOf(Len(codec.sent) + 1, n) IN
       codec' = [codec EXCEPT !.sent = Append(@, d),
                              !.stream = @ \o EncodeFrame(d)]
    /\ UNCHANGED <<stopping, idleVars, links, haVars, pumpVars,
                   kept, rxd, fwd, bread, framed>>

\* readexactly(2) returns the next two bytes of the stream and
\* length = int.from_bytes(b) (lines 147-148); with length 0 there is no
\* payload to read (line 140) and the frame is complete.
DecodeHeader ==
    /\ codec.length = UNBOUND
    /\ Len(codec.stream) >= codec.pos + 2
    /\ LET n == FromBytes(SubSeq(codec.stream, codec.pos + 1, codec.pos + 2)) IN
       codec' = IF n > 0
                THEN [codec EXCEPT !.pos = @ + 2, !.length = n]
                ELSE [codec EXCEPT !.pos = @ + 2, !.got = Append(@, <<>>)]
    /\ UNCHANGED <<stopping, idleVars, links, haVars, pumpVars,
                   kept, rxd, fwd, bread, framed>>

\* readexactly(length) returns the next `length` bytes of the stream
\* (line 141), which are passed on (line 142).
DecodePayload ==
    /\ codec.length # UNBOUND
    /\ Len(codec.stream) >= codec.pos + codec.length
    /\ codec' = [codec EXCEPT
                    !.pos = @ + codec.length,
                    !.length = UNBOUND,
                    !.got = Append(@, SubSeq(codec.stream, codec.pos + 1,
                                             codec.pos + codec.length))]
    /\ UNCHANGED <<stopping, idleVars, links, haVars, pumpVars,
                   kept, rxd, fwd, bread, framed>>

CodecNext ==
    \/ \E n \in PayloadLens : Encode(n)
    \/ DecodeHeader
    \/ DecodePayload

CodecSpec == Init /\ [][CodecNext]_vars

\* Steps that need nothing from the relay or the backend beyond the
\* completion of an operation this side started: task scheduling, timers
\* (the 5 s read timeout, the sleeps), connection attempts resolving one way
\* or the other, drains of small writes, wait_closed, cancellation delivery.
\* Arrival of bytes, EOF and I/O errors are left to the environment.
\* Such steps of the keep_idle_connection task t before its handoff.
IdleProgress(t) ==
    \/ Run(t)
    \/ ConnectOK(t) \/ ConnectFail(t)
    \/ HandshakeDrained(t)
    \/ Timeout(t)
    \/ HbDrained(t)
    \/ StopSleepDone(t)
    \/ BackoffDone(t)

\* Such steps of handle_active_connection called by task t.
SessionProgress(t) ==
    \/ HaOpenOK(t) \/ HaOpenFail(t)
    \/ WaitDone(t)
    \/ GatherDone(t)
    \/ CloseRelayDone(t)
    \/ CloseHaDone(t)

\* One asyncio task runs keep_idle_connection and the session it awaits.
Progress(t) == IdleProgress(t) \/ SessionProgress(t)

\* Such steps of the pipe_tunnel_to_ha task of t's session.
T1Progress(t) ==
    \/ T1Start(t)
    \/ T1Resumable(t) /\ (T1HaDrained(t) \/ T1Timeout(t) \/ T1HbDrained(t)
                           \/ T1Cancelled(t) \/ T1Closed(t))

\* Such steps of the pipe_ha_to_tunnel task of t's session.
T2Progress(t) ==
    \/ T2Start(t) \/ T2Drained(t) \/ T2Cancelled(t) \/ T2Closed(t)

\* The event loop runs every runnable task and every expired timer: each
\* asyncio task gets its turn whatever the other tasks do.
FairSpec ==
    /\ Spec
    /\ \A t \in Tasks : WF_vars(Progress(t))
    /\ \A t \in Tasks : WF_vars(T1Progress(t))
    /\ \A t \in Tasks : WF_vars(T2Progress(t))

\* keep_idle_connection alone under the same scheduling: what a task does
\* before its handoff depends on no session, so handle_active_connection
\* is a call that has not returned yet.
FairIdleSpec ==
    /\ Init /\ [][RetryNext]_vars
    /\ \A t \in Tasks : WF_vars(IdleProgress(t))

\* The first keep_idle_connection task and its session alone under the
\* same scheduling: its three asyncio tasks each get their turn.
FairSessionSpec ==
    /\ Init /\ [][StreamNext]_vars
    /\ WF_vars(Progress(1))
    /\ WF_vars(T1Progress(1))
    /\ WF_vars(T2Progress(1))

\* ================================================================ claims
\* tasks created by spawn() at line 251 of task t
Children(t) == {c \in Tasks : parent[c] = t /\ pc[c] # "none"}
\* the pump tasks of t's session are not running
PumpsStopped(t) == t1[t] \in {"none", "done"} /\ t2[t] \in {"none", "done"}
\* handle_active_connection has run its pumps for task t
SessionRan(t) == t1[t] # "none"

\* C1: a zero-length header read by the idle wait loop is consumed without
\* a handoff: handle_active_connection is entered only with a first_chunk
\* whose decoded length is non-zero.
C1_HeartbeatIdempotence ==
    \A t \in Tasks : pc[t] = "haopen" => first_chunk[t] > 0

\* C2: handle_active_connection is called at most once per relay link, and
\* a link it was called on stays the link of the task that handed it off,
\* which is in the session or has terminated: the task never waits,
\* connects or changes link again.
C2_SessionExclusivity ==
    \A t \in Tasks : \A k \in 1..Len(links[t]) :
        /\ links[t][k].hac <= 1
        /\ links[t][k].hac > 0 =>
             (k = w[t] /\ pc[t] \in InSession \cup {"done"})

C2_Witness ==
    \E t \in Tasks :
        /\ pc[t] = "done" /\ SessionRan(t) /\ ~stopping
        /\ Cur(t).hac = 1

\* C3: a task that detected a session start has spawned exactly one new
\* keep_idle_connection task, and has done so before the backend connection
\* is opened and before either pump exists; every task but the first comes
\* from exactly one session start.
C3_ReplacementOrdering ==
    /\ \A t \in Tasks :
        /\ Cardinality(Children(t)) <= 1
        /\ (pc[t] \in InSession \/ ha[t] # "none" \/ ~PumpsStopped(t)
                \/ SessionRan(t))
             => Cardinality(Children(t)) = 1
    /\ Cardinality({c \in Tasks : pc[c] # "none"})
         = 1 + Cardinality({t \in Tasks : w[t] # 0 /\ Cur(t).hac > 0})

C3_Witness ==
    \E t \in Tasks :
        /\ t1[t] = "ready" /\ t2[t] = "ready"
        /\ Cardinality(Children(t)) = 1

\* C4: while the shutdown flag is not set, exactly one keep_idle_connection
\* task is before its handoff.
C4_ExactlyOneIdleSlot ==
    ~stopping => Cardinality({t \in Tasks : pc[t] \in PreHandoff}) = 1

C4_Witness ==
    /\ ~stopping
    /\ \E t \in Tasks : pc[t] = "done" /\ SessionRan(t)
    /\ \E c \in Tasks : pc[c] = "backoff"

\* C5: while handle_active_connection waits in gather, every pump that is
\* not done has been cancelled (cancel pending, or already in its finally
\* block), and handle_active_connection is in its cleanup or has returned
\* only when both pumps are done.
C5_TerminationCoordination ==
    \A t \in Tasks :
        /\ pc[t] = "gather" =>
             /\ t1[t] = "done" \/ cancel1[t] \/ t1[t] = "closing"
             /\ t2[t] = "done" \/ cancel2[t] \/ t2[t] = "closing"
        /\ (pc[t] \in Cleanup /\ SessionRan(t)) =>
             t1[t] = "done" /\ t2[t] = "done"

C5_Witness ==
    \E t \in Tasks :
        /\ pc[t] = "close_t" /\ t1[t] = "done" /\ t2[t] = "done"
        /\ ha[t] = "closed"

\* a close() is issued in this step on the relay link or the backend link
\* of task t's session
ClosesRelay(t) ==
    /\ w[t] # 0 /\ w'[t] = w[t]
    /\ links'[t][w[t]].closes > Cur(t).closes
ClosesBackend(t) == haCloses'[t] > haCloses[t]

\* C6: in every session the relay link and the backend link are each closed
\* exactly once, and each close is issued only when both pump tasks have
\* stopped.
C6_CleanupOrdering ==
    /\ [](\A t \in Tasks :
            /\ haCloses[t] <= 1
            /\ w[t] # 0 => Cur(t).closes <= 1)
    /\ [][\A t \in Tasks :
            (pc[t] \in InSession /\ (ClosesRelay(t) \/ ClosesBackend(t)))
                => PumpsStopped(t)]_vars

\* C6 as amended: by the time handle_active_connection returns, the relay
\* link and (when it was opened) the backend link are closed, each by one
\* or two close() calls; handle_active_connection issues its own close()
\* calls, and waits for them, only with both pump tasks stopped.
C6_CleanupAmended ==
    \A t \in Tasks :
        /\ (pc[t] = "done" /\ w[t] # 0 /\ Cur(t).hac > 0) =>
             /\ Cur(t).state = "closed"
             /\ Cur(t).closes \in 1..2
             /\ ha[t] # "none" => (ha[t] = "closed" /\ haCloses[t] \in 1..2)
        /\ pc[t] \in {"close_t", "close_ha"} =>
             /\ PumpsStopped(t)
             /\ Cur(t).state = "closed" /\ Cur(t).closes \in 1..2
        /\ pc[t] = "close_ha" =>
             (ha[t] = "closed" /\ haCloses[t] \in 1..2)

C6_Witness ==
    \E t \in Tasks :
        /\ pc[t] = "done" /\ SessionRan(t)
        /\ Cur(t).closes = 2 /\ haCloses[t] = 2

\* C7: once the shutdown flag is set while a task is blocked in the timed
\* read of the idle wait loop, no further heartbeat is written to its link.
C7_NoHeartbeatAfterStop ==
    [][\A t \in Tasks :
         (stopping /\ pc[t] = "waiting") =>
             HbCount(links'[t][w[t]].wire) = HbCount(Cur(t).wire)]_vars

\* C8: a keep_idle_connection task that terminates because it observed the
\* shutdown flag while connecting or waiting (and not because an I/O error
\* ended its wait) has closed the relay link it held.
C8_ShutdownClosesIdleLink ==
    [][\A t \in Tasks :
         (/\ pc[t] \in {"backoff", "stopsleep"}
          /\ pc'[t] = "done"
          /\ err[t] \notin IOErrors
          /\ w[t] # 0)
            => Cur(t).state = "closed"]_vars

\* C9: when a read error, EOF or heartbeat-write error ends the idle wait,
\* the relay link is closed before the task sleeps and reconnects.
C9_LinkClosedOnIdleFailure ==
    \A t \in Tasks :
        (pc[t] = "backoff" /\ err[t] \in {"read", "hbwrite"})
            => Cur(t).state = "closed"

\* C10: once the shutdown flag is set, every session ends: both pumps stop,
\* both links are closed and handle_active_connection returns, with no
\* further bytes from the relay or the backend.
C10_ShutdownStopsPumps ==
    stopping ~>
        (\A t \in Tasks :
            /\ pc[t] \notin InSession
            /\ PumpsStopped(t)
            /\ SessionRan(t) => (Cur(t).state = "closed" /\ ha[t] = "closed"))

\* C11: once the shutdown flag is set, no keep_idle_connection task starts
\* a relay connection attempt and no new task is spawned, and every task
\* that is before its handoff (spawned and not yet run, connecting, waiting,
\* sleeping) terminates.
C11_NoRetryAfterStop ==
    /\ [][\A t \in Tasks :
            stopping =>
                /\ (pc'[t] = "connecting" => pc[t] = "connecting")
                /\ (pc[t] = "none" => pc'[t] = "none")
                /\ Len(links'[t]) = Len(links[t]) \/ pc[t] = "connecting"]_vars
    /\ stopping ~> (\A t \in Tasks : pc[t] \notin PreHandoff)

C11_Witness ==
    /\ stopping
    /\ \A t \in Tasks : pc[t] \notin PreHandoff
    /\ \E t \in Tasks : pc[t] = "done" /\ w[t] # 0 /\ Cur(t).hac = 0

\* C12: while the shutdown flag is not set, every exception caught by
\* keep_idle_connection (connect failure, failure during the idle wait) is
\* followed by one sleep of 3 units and then by a new connection attempt,
\* however many came before: a task that has failed n times has slept
\* exactly 3 * n units when it connects, shakes hands or waits, and
\* 3 * (n - 1) while it sleeps for the n-th time.
C12_FixedBackoffForever ==
    /\ [](\A t \in Tasks :
            ~stopping =>
                /\ pc[t] \in {"connecting", "handshake", "waiting", "hbdrain"}
                     => slept[t] = BackoffSecs * fails[t]
                /\ pc[t] = "backoff"
                     => slept[t] = BackoffSecs * (fails[t] - 1))
    /\ [][\A t \in Tasks :
            /\ (~stopping /\ fails'[t] # fails[t]) => pc'[t] = "backoff"
            /\ (~stopping /\ pc[t] = "backoff" /\ pc'[t] # "backoff")
                 => pc'[t] = "connecting"]_vars

C12_Witness ==
    /\ ~stopping
    /\ \E t \in Tasks :
         /\ pc[t] = "waiting" /\ Len(links[t]) = 1
         /\ fails[t] = MaxFails /\ slept[t] = BackoffSecs * MaxFails

\* a pump of task t's session has left its loop
PumpEnded(t) ==
    SessionRan(t) /\ (t1[t] \in {"closing", "done"} \/ t2[t] \in {"closing", "done"})

\* C13: once a pump of a session has ended (the backend read returned
\* empty, a read on the relay link failed, or anything else ended it), the
\* other pump ends too, the relay link and the backend link end up closed
\* and handle_active_connection returns.
C13_SessionEndsOnClose ==
    \A t \in Tasks :
        PumpEnded(t) ~>
            /\ pc[t] = "done"
            /\ t1[t] = "done" /\ t2[t] = "done"
            /\ Cur(t).state = "closed" /\ ha[t] = "closed"

\* the backend accepted and closed at once: a session that ended without
\* the shutdown flag and without a data frame
C13_Witness ==
    /\ ~stopping
    /\ \E t \in Tasks :
         /\ pc[t] = "done" /\ t1[t] = "done" /\ t2[t] = "done"
         /\ Cur(t).state = "closed" /\ ha[t] = "closed"
         /\ DataCount(Cur(t).wire) = 0 /\ HbCount(Cur(t).wire) = 0

\* handle_active_connection was called by task t and its open_connection
\* to the backend failed
BackendOpenFailed(t) ==
    /\ w[t] # 0 /\ Cur(t).hac > 0
    /\ ha[t] = "none" /\ pc[t] # "haopen"

\* C14: when opening the backend connection fails, no pump task exists,
\* the relay link is closed, handle_active_connection is not called again
\* on that link, and the task ends without opening another relay link;
\* while the shutdown flag is not set the only task before its handoff is
\* another one.
C14_BackendFailureAbandons ==
    \A t \in Tasks :
        BackendOpenFailed(t) =>
            /\ pc[t] \in {"close_t", "done"}
            /\ t1[t] = "none" /\ t2[t] = "none"
            /\ Cur(t).state = "closed" /\ Cur(t).hac = 1
            /\ Len(links[t]) = w[t]
            /\ ~stopping =>
                 \E c \in Tasks \ {t} :
                     {x \in Tasks : pc[x] \in PreHandoff} = {c}

C14_Witness ==
    /\ ~stopping
    /\ \E t \in Tasks : BackendOpenFailed(t) /\ pc[t] = "done"

\* C15: on every relay link that was opened, the first two writes are the
\* length of the identity and the identity, and neither is written again:
\* no heartbeat and no data frame precedes the handshake.
C15_HandshakeFirstOnce ==
    \A t \in Tasks : \A k \in 1..Len(links[t]) :
        LET wire == links[t][k].wire IN
        /\ Len(wire) >= 2
        /\ wire[1] = "IDLEN" /\ wire[2] = "IDENT"
        /\ Count(wire, "IDLEN") = 1 /\ Count(wire, "IDENT") = 1

C15_Witness ==
    \E t \in Tasks : \E k \in 1..Len(links[t]) :
        /\ HbCount(links[t][k].wire) >= 1
        /\ DataCount(links[t][k].wire) >= 1

\* this step writes exactly one heartbeat, and nothing else, to the relay
\* link of task t, which is open before and after
OneHeartbeat(t) ==
    /\ w'[t] = w[t]
    /\ Cur(t).state = "open" /\ links'[t][w[t]].state = "open"
    /\ links'[t][w[t]].wire = Cur(t).wire \o <<"HB">>

\* this step is a read timeout of the idle wait, of the pump
IdleTimedOut(t) == pc[t] = "waiting" /\ pc'[t] = "hbdrain"
PumpTimedOut(t) == t1[t] = "header" /\ t1'[t] = "hbdrain"

\* after a heartbeat the idle wait, the pump, goes back to the header read
\* unless the drain of the heartbeat raised or the pump was cancelled
IdleRetries(t) ==
    (pc[t] = "hbdrain" /\ pc'[t] # "hbdrain")
        => (pc'[t] = "waiting" \/ HbDrainFail(t))
PumpRetries(t) ==
    (t1[t] = "hbdrain" /\ t1'[t] # "hbdrain")
        => (t1'[t] = "header" \/ T1Fail(t) \/ T1Cancelled(t))

\* C16: while the shutdown flag is not set, every read timeout, in the idle
\* wait and in pipe_tunnel_to_ha alike, writes exactly one heartbeat to the
\* relay link, which stays open, leaves the task that owns the link where
\* it is, and is followed by a retry of the header read.
C16_TimeoutOnlyProbe ==
    [][\A t \in Tasks :
         ~stopping =>
            /\ IdleTimedOut(t) => OneHeartbeat(t)
            /\ IdleRetries(t)
            /\ PumpTimedOut(t) => (OneHeartbeat(t) /\ pc'[t] = pc[t])
            /\ PumpRetries(t)]_vars

\* C16 as amended: the same, except that a timeout of pipe_tunnel_to_ha on
\* a relay link that pipe_ha_to_tunnel has already closed writes nothing
\* and leaves the link closed.
C16_TimeoutProbeAmended ==
    [][\A t \in Tasks :
         ~stopping =>
            /\ IdleTimedOut(t) => OneHeartbeat(t)
            /\ IdleRetries(t)
            /\ PumpTimedOut(t) =>
                 /\ pc'[t] = pc[t] /\ t2'[t] = t2[t] /\ w'[t] = w[t]
                 /\ IF Cur(t).state = "open"
                    THEN OneHeartbeat(t)
                    ELSE /\ links'[t] = links[t]
                         /\ t2[t] \in {"closing", "done"}
            /\ PumpRetries(t)]_vars

\* consecutive timeouts: the pump is back at its header read on an open
\* link that carries two heartbeats
C16_Witness ==
    /\ ~stopping
    /\ \E t \in Tasks :
         /\ t1[t] = "header" /\ Cur(t).state = "open"
         /\ HbCount(Cur(t).wire) >= 2

\* the payloads of the first k frames whose lengths are q, one after the
\* other
RECURSIVE ConcatPayloads(_, _)
ConcatPayloads(q, k) ==
    IF k = 0 THEN <<>>
    ELSE ConcatPayloads(q, k - 1) \o PayloadOf(k, q[k])

IsPrefix(a, b) == Len(a) <= Len(b) /\ a = SubSeq(b, 1, Len(a))

\* C17: in every session the bytes written to the backend are a prefix of
\* the payloads of the frames received on the relay link, in order and
\* starting with the frame that started the session; while
\* pipe_tunnel_to_ha waits for a payload only that payload is outstanding,
\* and once it has written a payload or waits for a header nothing is
\* outstanding.  A frame of length 0 adds nothing.
C17_LosslessOrdered ==
    \A t \in Tasks :
        /\ IsPrefix(fwd[t], ConcatPayloads(rxd[t], Len(rxd[t])))
        /\ t1[t] = "payload" =>
             /\ length[t] = rxd[t][Len(rxd[t])]
             /\ fwd[t] = ConcatPayloads(rxd[t], Len(rxd[t]) - 1)
        /\ t1[t] \in {"hadrain", "header", "hbdrain"} =>
             fwd[t] = ConcatPayloads(rxd[t], Len(rxd[t]))

C17_Witness ==
    \E t \in Tasks :
        /\ t1[t] = "header" /\ Len(rxd[t]) >= 2
        /\ Len(fwd[t]) >= 2
        /\ fwd[t] = ConcatPayloads(rxd[t], Len(rxd[t]))

\* the sizes of the chunks when a backend payload of n bytes is read with
\* every read(8192) returning as much as it may
RECURSIVE MaximalChunks(_)
MaximalChunks(n) ==
    IF n = 0 THEN <<>>
    ELSE LET k == IF n < ChunkSize THEN n ELSE ChunkSize
         IN <<k>> \o MaximalChunks(n - k)

\* C18: pipe_ha_to_tunnel has written one frame per non-empty chunk read
\* from the backend: its two prefix bytes are the big-endian length of the
\* chunk, between 1 and 8192, and the chunks are consecutive pieces of the
\* backend's stream, in order.  A read that ends the pump writes no frame;
\* a read that returns a chunk writes exactly one.  70000 bytes read in
\* maximal chunks make eight chunks of 8192 bytes and one of 4464.
C18_BackendFraming ==
    /\ [](\A t \in Tasks :
            /\ Len(framed[t]) = Len(bread[t])
            /\ w[t] # 0 => DataCount(Cur(t).wire) = Len(framed[t])
            /\ \A i \in 1..Len(framed[t]) :
                 /\ framed[t][i].len = bread[t][i]
                 /\ framed[t][i].len \in 1..ChunkSize
                 /\ framed[t][i].hdr[1] \in 0..255
                 /\ framed[t][i].hdr[2] \in 0..255
                 /\ framed[t][i].hdr[1] * 256 + framed[t][i].hdr[2]
                      = framed[t][i].len
                 /\ framed[t][i].off = Sum(SubSeq(bread[t], 1, i - 1)))
    /\ [][\A t \in Tasks :
            (t2[t] = "haread" /\ t2'[t] # "haread") =>
                IF t2'[t] = "tdrain"
                THEN /\ Len(framed'[t]) = Len(framed[t]) + 1
                     /\ Len(bread'[t]) = Len(bread[t]) + 1
                ELSE /\ t2'[t] \in {"closing", "done"}
                     /\ framed'[t] = framed[t]
                     /\ links'[t][w[t]].wire = Cur(t).wire]_vars
    /\ MaximalChunks(70000)
         = [i \in 1..9 |-> IF i < 9 THEN 8192 ELSE 4464]

\* two frames of different sizes were written and the backend then closed
C18_Witness ==
    \E t \in Tasks :
        /\ Len(framed[t]) >= 2
        /\ framed[t][1].len # framed[t][2].len
        /\ t2[t] = "done" /\ ~stopping /\ ~cancel2[t] /\ t1[t] \notin {"closing", "done"}

\* the bytes of the frames of the payloads q[1..k], headers included
RECURSIVE FramedLen(_, _)
FramedLen(q, k) ==
    IF k = 0 THEN 0 ELSE FramedLen(q, k - 1) + 2 + Len(q[k])

\* C19: payloads of 0 to 65535 bytes framed the way pipe_ha_to_tunnel
\* frames them and read back the way pipe_tunnel_to_ha reads are read back
\* unchanged, one after the other: the payloads read are the first payloads
\* framed, the reader has consumed exactly their frames (and the two
\* prefix bytes of the next when its payload is outstanding), and the
\* length it decoded is the length of the payload framed.  Two prefix bytes
\* decode to the length they encode for every length from 0 to 65535.
C19_FramingRoundTrip ==
    /\ [](LET k == Len(codec.got) IN
          /\ k <= Len(codec.sent)
          /\ codec.got = SubSeq(codec.sent, 1, k)
          /\ IF codec.length = UNBOUND
             THEN codec.pos = FramedLen(codec.sent, k)
             ELSE /\ k < Len(codec.sent)
                  /\ codec.length = Len(codec.sent[k + 1])
                  /\ codec.pos = FramedLen(codec.sent, k) + 2
          /\ Len(codec.stream) = FramedLen(codec.sent, Len(codec.sent)))
    /\ \A n \in 0..65535 :
         /\ ToBytes2Big(n) \in (0..255) \X (0..255)
         /\ FromBytes(ToBytes2Big(n)) = n

\* several frames, one with an empty payload and one with two non-zero
\* prefix bytes among them, were framed and all read back
C19_Witness ==
    /\ Len(codec.sent) >= 2
    /\ codec.got = codec.sent
    /\ codec.pos = Len(codec.stream)
    /\ \E i \in 1..Len(codec.sent) : Len(codec.sent[i]) = 0
    /\ \E i \in 1..Len(codec.sent) : Len(codec.sent[i]) = 770

\* the writes q, from the i-th on, are whole frames: a heartbeat, or a
\* length prefix followed at once by its chunk
RECURSIVE WholeFrames(_, _)
WholeFrames(q, i) ==
    IF i > Len(q) THEN TRUE
    ELSE IF q[i] = "HB" THEN WholeFrames(q, i + 1)
    ELSE /\ q[i] = "LEN"
         /\ i < Len(q) /\ q[i + 1] = "CHUNK"
         /\ WholeFrames(q, i + 2)

\* C20: on every relay link what is written after the handshake is a
\* sequence of whole frames, whatever the interleaving of the heartbeats of
\* pipe_tunnel_to_ha and the data frames of pipe_ha_to_tunnel: no heartbeat
\* stands between a length prefix and its chunk.
C20_FramesNeverTorn ==
    \A t \in Tasks : \A k \in 1..Len(links[t]) :
        WholeFrames(links[t][k].wire, Len(Handshake) + 1)

\* a heartbeat of the pump written after a data frame of the same session
C20_Witness ==
    \E t \in Tasks :
        /\ w[t] # 0 /\ SessionRan(t)
        /\ \E i \in 1..Len(Cur(t).wire) : \E j \in 1..Len(Cur(t).wire) :
             /\ i < j
             /\ Cur(t).wire[i] = "CHUNK" /\ Cur(t).wire[j] = "HB"
====
